---------------------------- MODULE Spec2Model ----------------------------
(***************************************************************************)
(* Multi-Agent AI System: the shared store (memory/shared_memory.py), the  *)
(* agents' logging (agents/base_agent.py), the classifier                  *)
(* (agents/classifier_agent.py), the extractors and the HTTP handlers      *)
(* (main.py).                                                              *)
(*                                                                         *)
(* Python values are records [kind, n, s, p]:                              *)
(*   kind "str"      a plain str with text s                               *)
(*   kind "isostr"   a str holding datetime.isoformat() of instant n       *)
(*   kind "jsonstr"  a str holding the JSON text of payload p              *)
(*   kind "datetime" a datetime object for instant n                       *)
(*   kind "dict"     a dict with payload p; s = "native" when all of it is *)
(*                   JSON-native, s = "tuple" when it nests a tuple        *)
(*   kind "int"      an int n                                              *)
(*   kind "bool"     True (n = 1) or False (n = 0)                         *)
(*   kind "None"     None                                                  *)
(***************************************************************************)
EXTENDS Integers, Sequences, FiniteSets, TLC

\* ------------------------------------------------------------------ bounds
MaxClock == 2
MaxEntries == 2
MaxPatched == 1
MaxWords == 3
MaxLogs == 2

\* ------------------------------------------------------------ Python values
NoPayload == [empty |-> TRUE]

PyStr(x) == [kind |-> "str", n |-> 0, s |-> x, p |-> NoPayload]

PyNone == [kind |-> "None", n |-> 0, s |-> "", p |-> NoPayload]

PyInt(i) == [kind |-> "int", n |-> i, s |-> "", p |-> NoPayload]

PyBool(b) == [kind |-> "bool", n |-> IF b THEN 1 ELSE 0, s |-> "",
              p |-> NoPayload]

PyDatetime(t) == [kind |-> "datetime", n |-> t, s |-> "", p |-> NoPayload]

IsoStr(t) == [kind |-> "isostr", n |-> t, s |-> "", p |-> NoPayload]

PyDict(payload, shape) == [kind |-> "dict", n |-> 0, s |-> shape, p |-> payload]

JsonStr(payload) == [kind |-> "jsonstr", n |-> 0, s |-> "", p |-> payload]

IsStr(v) == v.kind \in {"str", "isostr", "jsonstr"}

\* The outcome of a call: a value, or the exception it raised.
Ok(v) == [err |-> "", val |-> v]

Raise(e) == [err |-> e, val |-> PyNone]

\* The same for a call that returns a plain str.
Fail(e) == [err |-> e, val |-> ""]

\* datetime.isoformat()
isoformat(v) == IsoStr(v.n)

\* datetime.fromisoformat(x)
fromisoformat(v) ==
    IF v.kind = "isostr" THEN Ok(PyDatetime(v.n))
    ELSE IF IsStr(v) THEN Raise("ValueError")
    ELSE Raise("TypeError")

\* json.dumps(x): a tuple is written as an array, as a list is.
json_dumps(v) == JsonStr(v.p)

\* json.loads(x)
json_loads(v) ==
    IF v.kind = "jsonstr" THEN Ok(PyDict(v.p, "native"))
    ELSE IF IsStr(v) THEN Raise("JSONDecodeError")
    ELSE Raise("TypeError")

\* ------------------------------------------- the insertion-ordered dict
\* self._in_memory_store is a Python dict: a sequence of [key, val] in
\* insertion order, each key at most once.
Keys(d) == {d[i].key : i \in DOMAIN d}

Has(d, k) == k \in Keys(d)

Lookup(d, k) == d[CHOOSE i \in DOMAIN d : d[i].key = k].val

Put(d, k, v) ==
    IF Has(d, k)
    THEN [i \in DOMAIN d |-> IF d[i].key = k THEN [key |-> k, val |-> v] ELSE d[i]]
    ELSE Append(d, [key |-> k, val |-> v])

Pop(d, k) == SelectSeq(d, LAMBDA x : x.key # k)

\* ------------------------------------------------------------ MemoryEntry
EntryFields == {"source", "type", "timestamp", "extracted_values",
                "thread_id", "conversation_id"}

\* What a call returns when it returns no entry.
NoEntry == [none |-> TRUE]

\* Pydantic's validation of MemoryEntry(**data): the declared types, with a
\* str timestamp in ISO form accepted and parsed; keys that are not fields
\* are ignored.
ValidEntry(data) ==
    /\ EntryFields \ {"conversation_id"} \subseteq DOMAIN data
    /\ IsStr(data["source"])
    /\ IsStr(data["type"])
    /\ data["timestamp"].kind \in {"datetime", "isostr"}
    /\ data["extracted_values"].kind = "dict"
    /\ IsStr(data["thread_id"])
    /\ "conversation_id" \in DOMAIN data =>
           (IsStr(data["conversation_id"]) \/ data["conversation_id"] = PyNone)

MemoryEntry(data) ==
    [source |-> data["source"],
     type |-> data["type"],
     timestamp |-> PyDatetime(data["timestamp"].n),
     extracted_values |-> data["extracted_values"],
     thread_id |-> data["thread_id"],
     conversation_id |-> IF "conversation_id" \in DOMAIN data
                         THEN data["conversation_id"] ELSE PyNone]


\* ------------------------------------------------- SharedMemory operations
\* store_entry(entry) reading the clock as t: the key is made of the clock
\* reading alone; the stored record holds the timestamp in ISO form and the
\* extracted values as JSON text.
entry_id(t) == t

store_entry(d, entry, t) ==
    LET entry_dict == [entry EXCEPT
                          !.timestamp = isoformat(entry.timestamp),
                          !.extracted_values = json_dumps(entry.extracted_values)]
    IN  [store |-> Put(d, entry_id(t), entry_dict), id |-> entry_id(t)]

\* get_entry(entry_id): the record is converted in place, field by field,
\* before the entry is built from it.
get_entry(d, id) ==
    IF ~Has(d, id) THEN [store |-> d, err |-> "", entry |-> NoEntry]
    ELSE
      LET rec == Lookup(d, id)
          ts  == fromisoformat(rec["timestamp"])
          r1  == [rec EXCEPT !["timestamp"] = ts.val]
          ev  == json_loads(r1["extracted_values"])
          r2  == [r1 EXCEPT !["extracted_values"] = ev.val]
      IN  IF ts.err # "" THEN [store |-> d, err |-> ts.err, entry |-> NoEntry]
          ELSE IF ev.err # ""
               THEN [store |-> Put(d, id, r1), err |-> ev.err, entry |-> NoEntry]
          ELSE IF ~ValidEntry(r2)
               THEN [store |-> Put(d, id, r2), err |-> "ValidationError",
                     entry |-> NoEntry]
          ELSE [store |-> Put(d, id, r2), err |-> "", entry |-> MemoryEntry(r2)]

\* sorted(entries, key=lambda x: x.timestamp): a stable sort.
RECURSIVE InsertSorted(_, _)
InsertSorted(sorted, e) ==
    IF sorted = <<>> THEN <<e>>
    ELSE IF sorted[Len(sorted)].timestamp.n <= e.timestamp.n
         THEN Append(sorted, e)
         ELSE Append(InsertSorted(SubSeq(sorted, 1, Len(sorted) - 1), e),
                     sorted[Len(sorted)])

RECURSIVE SortByTimestamp(_)
SortByTimestamp(entries) ==
    IF entries = <<>> THEN <<>>
    ELSE InsertSorted(SortByTimestamp(SubSeq(entries, 1, Len(entries) - 1)),
                      entries[Len(entries)])

\* The loop of get_thread_history from position i on: every record of the
\* thread is converted in place as get_entry converts it; the first
\* exception ends the loop and keeps the conversions made so far.
RECURSIVE ThreadScan(_, _, _, _)
ThreadScan(d, thread_id, i, entries) ==
    IF i > Len(d) THEN [store |-> d, err |-> "", entries |-> entries]
    ELSE IF d[i].val["thread_id"] # thread_id
         THEN ThreadScan(d, thread_id, i + 1, entries)
    ELSE
      LET got == get_entry(d, d[i].key)
      IN  IF got.err # ""
          THEN [store |-> got.store, err |-> got.err, entries |-> <<>>]
          ELSE ThreadScan(got.store, thread_id, i + 1, Append(entries, got.entry))

get_thread_history(d, thread_id) ==
    LET scan == ThreadScan(d, thread_id, 1, <<>>)
    IN  [scan EXCEPT !.entries = SortByTimestamp(scan.entries)]

\* An update that sets only the keys that are fields of MemoryEntry.
update_entry_known_keys(d, id, updates) ==
    IF ~Has(d, id) THEN [store |-> d, ret |-> FALSE]
    ELSE [store |-> Put(d, id,
                        [k \in DOMAIN updates \cap EntryFields |-> updates[k]]
                            @@ Lookup(d, id)),
          ret |-> TRUE]

\* update_entry(entry_id, updates): dict.update on the stored record.
update_entry(d, id, updates) ==
    IF ~Has(d, id) THEN [store |-> d, ret |-> FALSE]
    ELSE [store |-> Put(d, id, updates @@ Lookup(d, id)), ret |-> TRUE]

\* delete_entry(entry_id)
delete_entry(d, id) == [store |-> Pop(d, id), ret |-> Has(d, id)]

\* A clearing that stops after the first entry of the thread.
clear_thread_first_only(d, thread_id) ==
    LET to_delete == {i \in DOMAIN d : d[i].val["thread_id"] = thread_id}
        first == {i \in to_delete : \A j \in to_delete : i <= j}
    IN  [store |-> SelectSeq(d, LAMBDA x :
                       \A i \in first : x.key # d[i].key),
         ret |-> Cardinality(first)]

\* clear_thread(thread_id)
clear_thread(d, thread_id) ==
    LET to_delete == {k \in Keys(d) : Lookup(d, k)["thread_id"] = thread_id}
    IN  [store |-> SelectSeq(d, LAMBDA x : x.key \notin to_delete),
         ret |-> Cardinality(to_delete)]


\* ------------------------------------------------------------- documents
\* A document is described by what the parsers make of it:
\*   pytype   "str", "bytes" or "int" (any other type)
\*   json     what json.loads gives for a str: "object", "array", "number",
\*            or "invalid" (JSONDecodeError)
\*   type     the object's "type" member, Absent when it has none
\*   from, subject   the headers email.parser reads, None when missing
\*   pdf      for bytes: "ok", "extract_error" (a page's text cannot be
\*            extracted) or "unreadable" (PdfReader raises)
\*   words    the words of the text: of json.dumps(data) for JSON, of
\*            subject and body for an email, of the pages for a PDF
Absent == [kind |-> "absent", n |-> 0, s |-> "", p |-> NoPayload]

\* metadata = {}
NoMeta == [k \in {} |-> PyNone]

\* bool(x) for None, str and int
Truthy(v) ==
    /\ v.kind # "None"
    /\ ~(v.kind = "str" /\ v.s = "")
    /\ ~(v.kind = "int" /\ v.n = 0)

\* dict.get(key, default)
DictGet(m, k, default) == IF k \in DOMAIN m THEN m[k] ELSE default

\* str.lower() on the words and type names used here
lower(w) ==
    CASE w = "INVOICE" -> "invoice"
      [] w = "Invoice" -> "invoice"
      [] w = "RFQ" -> "rfq"
      [] OTHER -> w

LowerText(words) == [i \in DOMAIN words |-> lower(words[i])]

\* keyword in content
Contains(content, keyword) == \E i \in DOMAIN content : content[i] = keyword

\* ------------------------------------------------------- ClassifierAgent
SUPPORTED_FORMATS == {"pdf", "json", "email"}

SUPPORTED_INTENTS == {"invoice", "rfq", "complaint", "regulation"}

\* intent_keywords, in the order the dict literal gives them
intent_keywords ==
    << [intent |-> "invoice",
        keywords |-> <<"invoice", "bill", "payment", "amount due">>],
       [intent |-> "rfq",
        keywords |-> <<"rfq", "request for quote", "quote request", "pricing">>],
       [intent |-> "complaint",
        keywords |-> <<"complaint", "issue", "problem", "concern">>],
       [intent |-> "regulation",
        keywords |-> <<"regulation", "compliance", "policy", "requirement">>] >>

\* sum(1 for keyword in keywords if keyword in content)
RECURSIVE KeywordMatches(_, _, _)
KeywordMatches(keywords, content, j) ==
    IF j > Len(keywords) THEN 0
    ELSE (IF Contains(content, keywords[j]) THEN 1 ELSE 0)
         + KeywordMatches(keywords, content, j + 1)

intent_scores(content) ==
    [i \in DOMAIN intent_keywords |->
        [intent |-> intent_keywords[i].intent,
         score |-> KeywordMatches(intent_keywords[i].keywords, content, 1)]]

\* max() keeping the last item among those of the highest score.
RECURSIVE MaxByScoreLast(_, _, _)
MaxByScoreLast(items, i, best) ==
    IF i > Len(items) THEN best
    ELSE MaxByScoreLast(items, i + 1,
                        IF items[i].score >= best.score THEN items[i] ELSE best)

\* max(items, key=lambda x: x[1]): the first item among those of the
\* highest score.
RECURSIVE MaxByScore(_, _, _)
MaxByScore(items, i, best) ==
    IF i > Len(items) THEN best
    ELSE MaxByScore(items, i + 1,
                    IF items[i].score > best.score THEN items[i] ELSE best)

analyze_content_for_intent(content) ==
    LET scores == intent_scores(content)
    IN  IF \A i \in DOMAIN scores : scores[i].score = 0 THEN "unknown"
        ELSE MaxByScore(scores, 2, scores[1]).intent

\* An email check that is content with either header.
is_email_format_either(content) ==
    Truthy(content.from) \/ Truthy(content.subject)

is_email_format(content) == Truthy(content.from) /\ Truthy(content.subject)

detect_format(content) ==
    IF content.pytype = "str" /\ content.json # "invalid" THEN Ok("json")
    ELSE IF content.pytype = "str" /\ is_email_format(content) THEN Ok("email")
    ELSE IF content.pytype = "bytes" /\ content.pdf # "unreadable" THEN Ok("pdf")
    ELSE Fail("ValueError: Unsupported format")

\* A JSON intent that looks at the keywords before the type member.
detect_json_intent_keywords_first(content) ==
    IF content.json = "invalid" THEN Fail("ValueError: Invalid JSON content")
    ELSE IF content.json = "number" THEN Fail("TypeError")
    ELSE IF analyze_content_for_intent(LowerText(content.words)) # "unknown"
         THEN Ok(analyze_content_for_intent(LowerText(content.words)))
    ELSE IF content.type # Absent
         THEN IF IsStr(content.type) THEN Ok(lower(content.type.s))
              ELSE Fail("AttributeError")
    ELSE Ok("unknown")

detect_json_intent(content) ==
    IF content.json = "invalid" THEN Fail("ValueError: Invalid JSON content")
    ELSE IF content.json = "number" THEN Fail("TypeError")
    ELSE IF content.type # Absent
         THEN IF IsStr(content.type) THEN Ok(lower(content.type.s))
              ELSE Fail("AttributeError")
    ELSE Ok(analyze_content_for_intent(LowerText(content.words)))

detect_email_intent(content) ==
    Ok(analyze_content_for_intent(LowerText(content.words)))

detect_pdf_intent(content) ==
    IF content.pdf # "ok" THEN Fail("ValueError: Error processing PDF")
    ELSE Ok(analyze_content_for_intent(LowerText(content.words)))

detect_intent(content, format_type) ==
    IF format_type = "json" THEN detect_json_intent(content)
    ELSE IF format_type = "email" THEN detect_email_intent(content)
    ELSE IF format_type = "pdf" THEN detect_pdf_intent(content)
    ELSE Fail("ValueError: Unsupported format")

\* Confidence in hundredths.
BaseConfidenceSupported == 80
BaseConfidenceOther == 50
IntentConfidenceSupported == 90
IntentConfidenceOther == 60

\* A confidence that halves the intent term only.
calculate_confidence_unparenthesised(format_type, intent) ==
    LET base_confidence == IF format_type \in SUPPORTED_FORMATS
                           THEN BaseConfidenceSupported ELSE BaseConfidenceOther
        intent_confidence == IF intent \in SUPPORTED_INTENTS
                             THEN IntentConfidenceSupported
                             ELSE IntentConfidenceOther
    IN  base_confidence + intent_confidence \div 2

calculate_confidence(format_type, intent) ==
    LET base_confidence == IF format_type \in SUPPORTED_FORMATS
                           THEN BaseConfidenceSupported ELSE BaseConfidenceOther
        intent_confidence == IF intent \in SUPPORTED_INTENTS
                             THEN IntentConfidenceSupported
                             ELSE IntentConfidenceOther
    IN  (base_confidence + intent_confidence) \div 2

\* --------------------------------------------------------------- BaseAgent
NoKey == -1

\* str(uuid.uuid4()): the u-th identifier drawn, a str unlike every other.
UuidStr(u) == [kind |-> "str", n |-> u, s |-> "uuid4", p |-> NoPayload]

\* A logging that stores the entry before it is validated.
log_processing_store_first(d, agent, metadata, results, u, t1, t2) ==
    LET data == [source |-> DictGet(metadata, "source", PyStr("unknown")),
                 type |-> DictGet(metadata, "type", PyStr("unknown")),
                 timestamp |-> PyDatetime(t1),
                 extracted_values |->
                     PyDict([input_metadata |-> metadata,
                             processing_results |-> results,
                             agent_id |-> agent], "native"),
                 thread_id |-> DictGet(metadata, "thread_id", UuidStr(u)),
                 conversation_id |-> DictGet(metadata, "conversation_id", PyNone)]
    IN  [store |-> store_entry(d, data, t2).store,
         err |-> IF ValidEntry(data) THEN "" ELSE "ValidationError",
         reads |-> t2, drawn |-> u + 1,
         key |-> IF ValidEntry(data) THEN store_entry(d, data, t2).id
                 ELSE NoKey]

\* log_processing(content, metadata, results) of the agent `agent`, drawing
\* the u-th uuid and reading the clock as t1 (the entry's timestamp) and
\* then as t2 (the key): the entry is validated before it is stored.
\* `reads` is the last clock reading made, `drawn` the uuids drawn, `key`
\* the key returned by store_entry (NoKey when nothing was stored).
log_processing(d, agent, metadata, results, u, t1, t2) ==
    LET data == [source |-> DictGet(metadata, "source", PyStr("unknown")),
                 type |-> DictGet(metadata, "type", PyStr("unknown")),
                 timestamp |-> PyDatetime(t1),
                 extracted_values |->
                     PyDict([input_metadata |-> metadata,
                             processing_results |-> results,
                             agent_id |-> agent], "native"),
                 thread_id |-> DictGet(metadata, "thread_id", UuidStr(u)),
                 conversation_id |-> DictGet(metadata, "conversation_id", PyNone)]
    IN  IF ~ValidEntry(data)
        THEN [store |-> d, err |-> "ValidationError", reads |-> t1,
              drawn |-> u + 1, key |-> NoKey]
        ELSE [store |-> store_entry(d, MemoryEntry(data), t2).store, err |-> "",
              reads |-> t2, drawn |-> u + 1,
              key |-> store_entry(d, MemoryEntry(data), t2).id]

NoResults == [none |-> TRUE]

\* ClassifierAgent.process(content, metadata) when the clock last read c
ClassifierProcess(d, content, metadata, u, c, t1, t2) ==
    LET format_type == detect_format(content)
        intent == detect_intent(content, format_type.val)
        results == [format |-> format_type.val,
                    intent |-> intent.val,
                    confidence |-> calculate_confidence(format_type.val, intent.val)]
        logged == log_processing(d, "classifier", metadata, results, u, t1, t2)
    IN  IF format_type.err # ""
        THEN [store |-> d, err |-> format_type.err, results |-> NoResults,
              reads |-> c, drawn |-> u, key |-> NoKey]
        ELSE IF intent.err # ""
        THEN [store |-> d, err |-> intent.err, results |-> NoResults,
              reads |-> c, drawn |-> u, key |-> NoKey]
        ELSE [store |-> logged.store, err |-> logged.err,
              results |-> IF logged.err # "" THEN NoResults ELSE results,
              reads |-> logged.reads, drawn |-> logged.drawn,
              key |-> logged.key]

\* ---------------------------------------------------------------- JSONAgent
\* The "data" member of a JSON object is one of
\*   "absent"      no such member
\*   "empty"       {}
\*   "complete"    a mapping holding every field of its schema
\*   "noitems"     the same with an empty items / requested_items /
\*                 requirements list
\*   "badamount"   a complete mapping whose amount is a non-empty str
\*   "nonmapping"  a value that is no mapping (a list, a str)
SCHEMAS == {"invoice", "rfq", "complaint", "regulation"}

\* _validate_schema(data, intent) for a mapping `data`: the schema classes
\* require a str "type" and, when "data" is given, a mapping.
validate_schema(content, intent) ==
    IF ~(IsStr(intent) /\ intent.s \in SCHEMAS)
    THEN [valid |-> FALSE, errors |-> <<"Unsupported intent">>]
    ELSE IF IsStr(content.type) /\ content.data # "nonmapping"
    THEN [valid |-> TRUE, errors |-> <<>>]
    ELSE [valid |-> FALSE, errors |-> <<"validation error">>]

\* What data.get("data", {}).get(field) gives for the two fields that
\* _format_data reads: "None", "set" (a non-empty str), "positive" (a
\* number above 0) or "str" (a non-empty str where a number is meant).
DataField(data, field) ==
    IF data \in {"absent", "empty"} THEN "None"
    ELSE IF field = "invoice_number" THEN "set"
    ELSE IF data = "badamount" THEN "str"
    ELSE "positive"

\* _format_data(data, intent): type, timestamp and source, and for the
\* intent "invoice" the invoice number and the amount; no other field of
\* "data" is copied. A key the result does not have is "absent".
format_data(content, intent) ==
    LET invoice == intent = PyStr("invoice")
    IN  [type |-> intent,
         invoice_number |-> IF invoice
                            THEN DataField(content.data, "invoice_number")
                            ELSE "absent",
         amount |-> IF invoice THEN DataField(content.data, "amount")
                    ELSE "absent"]

\* The anomalies of one field each, in the order _check_anomalies tests them.
AnomalyList(missingId, missingMiddle, missingLast) ==
    (IF missingId # "" THEN <<missingId>> ELSE <<>>)
    \o (IF missingMiddle # "" THEN <<missingMiddle>> ELSE <<>>)
    \o (IF missingLast # "" THEN <<missingLast>> ELSE <<>>)

\* _check_anomalies(formatted_data, intent): the fields are looked up in
\* the formatted data, which holds none of them but the invoice number
\* and the amount of an invoice.
check_anomalies(formatted, intent) ==
    LET i == IF IsStr(intent) THEN intent.s ELSE ""
    IN  IF i = "invoice"
        THEN AnomalyList(IF formatted.invoice_number \in {"absent", "None"}
                         THEN "Missing invoice number" ELSE "",
                         IF formatted.amount \in {"absent", "None"}
                         THEN "Invalid or missing amount" ELSE "",
                         "No items in invoice")
        ELSE IF i = "rfq"
        THEN AnomalyList("Missing RFQ number", "No requested items",
                         "Missing deadline")
        ELSE IF i = "complaint"
        THEN AnomalyList("Missing complaint ID",
                         "Missing complaint description",
                         "Missing severity level")
        ELSE IF i = "regulation"
        THEN AnomalyList("Missing regulation ID", "No requirements specified",
                         "Missing effective date")
        ELSE <<>>

\* JSONAgent.process(content, metadata): every exception is raised again
\* as a ValueError.
JSONProcess(d, content, metadata, u, c, t1, t2) ==
    LET failed(e) == [store |-> d, err |-> e, results |-> NoResults,
                      reads |-> c, drawn |-> u, key |-> NoKey]
        given == DictGet(metadata, "intent", PyNone)
        intent == IF Truthy(given) THEN given
                  ELSE IF content.type = Absent THEN PyStr("unknown")
                  ELSE content.type
        validation_result == validate_schema(content, intent)
        formatted_data == format_data(content, intent)
        results == [valid |-> validation_result.valid,
                    formatted_data |-> formatted_data,
                    anomalies |-> check_anomalies(formatted_data, intent),
                    validation_errors |-> validation_result.errors]
        logged == log_processing(d, "json", metadata, results, u, t1, t2)
    IN  IF content.pytype = "str" /\ content.json = "invalid"
        THEN failed("ValueError: Invalid JSON format")
        ELSE IF content.pytype \notin {"str", "dict"}
        THEN failed("ValueError: Error processing JSON")
        \* data.get and schema_class(**data) need a mapping
        ELSE IF content.json # "object"
        THEN failed("ValueError: Error processing JSON")
        \* _format_data: data.get("data", {}).get(...) needs a mapping
        ELSE IF intent = PyStr("invoice") /\ content.data = "nonmapping"
        THEN failed("ValueError: Error processing JSON")
        \* _check_anomalies: a str amount cannot be compared with 0
        ELSE IF formatted_data.amount = "str"
        THEN failed("ValueError: Error processing JSON")
        ELSE IF logged.err # ""
        THEN [store |-> d, err |-> "ValueError: Error processing JSON",
              results |-> NoResults, reads |-> logged.reads,
              drawn |-> logged.drawn, key |-> NoKey]
        ELSE [store |-> logged.store, err |-> "", results |-> results,
              reads |-> logged.reads, drawn |-> logged.drawn,
              key |-> logged.key]

\* --------------------------------------------------------------- EmailAgent
URGENCY_KEYWORDS ==
    << [level |-> "high",
        keywords |-> <<"urgent", "asap", "immediately", "critical", "emergency">>],
       [level |-> "medium",
        keywords |-> <<"soon", "shortly", "prompt", "timely">>],
       [level |-> "low",
        keywords |-> <<"when possible", "at your convenience", "no rush">>] >>

\* The first record of `table` one of whose keywords occurs in the text,
\* 0 when there is none.
FirstMatching(table, content) ==
    LET hits == {i \in DOMAIN table :
                    \E j \in DOMAIN table[i].keywords :
                        Contains(content, table[i].keywords[j])}
    IN  IF hits = {} THEN 0 ELSE CHOOSE i \in hits : \A k \in hits : i <= k

\* intent_patterns: each pattern is the alternation of the keywords the
\* classifier lists for the intent, in the same order.
intent_patterns == intent_keywords

\* An intent analysis that counts keywords as the classifier does.
analyze_intent_by_count(words) ==
    LET i == analyze_content_for_intent(LowerText(words))
    IN  IF i = "unknown" THEN "general" ELSE i

\* _analyze_intent(subject, body): the first pattern found in the text.
analyze_intent(words) ==
    LET i == FirstMatching(intent_patterns, LowerText(words))
    IN  IF i = 0 THEN "general" ELSE intent_patterns[i].intent

\* _analyze_urgency(subject, body)
analyze_urgency(words) ==
    LET i == FirstMatching(URGENCY_KEYWORDS, LowerText(words))
    IN  IF i = 0 THEN "low" ELSE URGENCY_KEYWORDS[i].level

\* EmailAgent.process(content, metadata): every exception is raised again
\* as a ValueError. A body that is a list of parts (a multipart message
\* with no text/plain part) cannot be searched for entities.
EmailProcess(d, content, metadata, u, c, t1, t2) ==
    LET failed(e) == [store |-> d, err |-> e, results |-> NoResults,
                      reads |-> c, drawn |-> u, key |-> NoKey]
        intent == analyze_intent(content.words)
        urgency == analyze_urgency(content.words)
        results == [crm_data |-> [classification |->
                                      [intent |-> intent, urgency |-> urgency]],
                    analysis |-> [intent |-> intent, urgency |-> urgency]]
        logged == log_processing(d, "email", metadata, results, u, t1, t2)
    IN  IF content.pytype # "str"
        THEN failed("ValueError: Error processing email")
        ELSE IF content.body = "parts"
        THEN failed("ValueError: Error processing email")
        ELSE IF logged.err # ""
        THEN [store |-> d, err |-> "ValueError: Error processing email",
              results |-> NoResults, reads |-> logged.reads,
              drawn |-> logged.drawn, key |-> NoKey]
        ELSE [store |-> logged.store, err |-> "", results |-> results,
              reads |-> logged.reads, drawn |-> logged.drawn,
              key |-> logged.key]

\* ------------------------------------------------------------------ main.py
\* A handler that answers the classifier's "Unsupported format" with 400.
error_response_unsupported_400(e) ==
    [status |-> IF e = "ValueError: Unsupported format" THEN 400 ELSE 500,
     detail |-> e, classification |-> NoResults, result |-> NoResults]

\* except Exception as e: raise HTTPException(status_code=500, detail=str(e))
error_response(e) ==
    [status |-> 500, detail |-> e, classification |-> NoResults,
     result |-> NoResults]

\* return {"classification": classification, "processing_result": result}
ok_response(results, result) ==
    [status |-> 200, detail |-> "", classification |-> results,
     result |-> result]

\* The handler's outcome when it calls no extractor: it raises e, or
\* returns `result` when e is empty.
NotRouted(d, u, c, e, result) ==
    [store |-> d, err |-> e, results |-> result, reads |-> c, drawn |-> u,
     key |-> NoKey, agent |-> "", metadata |-> NoMeta]

\* The agent call an outcome came from, and the metadata given to it.
Routed(agent, metadata, outcome) ==
    [store |-> outcome.store, err |-> outcome.err, results |-> outcome.results,
     reads |-> outcome.reads, drawn |-> outcome.drawn, key |-> outcome.key,
     agent |-> agent, metadata |-> metadata]

\* A routing that keeps the intent the caller supplied.
process_input_route_caller_intent(d, content, metadata, results, u, c, t1, t2) ==
    LET routed == metadata @@ ("intent" :> PyStr(results.intent))
    IN  IF results.format = "json"
        THEN Routed("json", routed,
                    JSONProcess(d, content, routed, u, c, t1, t2))
        ELSE IF results.format = "email"
        THEN Routed("email", routed,
                    EmailProcess(d, content, routed, u, c, t1, t2))
        ELSE NotRouted(d, u, c, "HTTPException 400: Unsupported format",
                       NoResults)

\* process_input after the classification: the request's metadata gets
\* the classifier's intent and goes to the agent of the format.
process_input_route(d, content, metadata, results, u, c, t1, t2) ==
    LET routed == ("intent" :> PyStr(results.intent)) @@ metadata
    IN  IF results.format = "json"
        THEN Routed("json", routed,
                    JSONProcess(d, content, routed, u, c, t1, t2))
        ELSE IF results.format = "email"
        THEN Routed("email", routed,
                    EmailProcess(d, content, routed, u, c, t1, t2))
        ELSE NotRouted(d, u, c, "HTTPException 400: Unsupported format",
                       NoResults)

PdfMessage ==
    [message |-> "PDF processed, but only invoice intent is supported for PDF in this demo."]

\* process_file after the classification: a decoded upload is routed as
\* process_input routes it, with metadata holding the intent alone; an
\* upload that is not UTF-8 goes to the JSON agent when it is a PDF
\* classified as an invoice.
process_file_route(d, content, results, u, c, t1, t2) ==
    LET metadata == [intent |-> PyStr(results.intent)]
        unrouted(e) == NotRouted(d, u, c, e, NoResults)
    IN  IF content.pytype = "str"
        THEN IF results.format = "json"
             THEN Routed("json", metadata,
                         JSONProcess(d, content, metadata, u, c, t1, t2))
             ELSE IF results.format = "email"
             THEN Routed("email", metadata,
                         EmailProcess(d, content, metadata, u, c, t1, t2))
             ELSE unrouted("HTTPException 400: Unsupported format")
        ELSE IF results.format = "pdf"
             THEN IF results.intent = "invoice"
                  THEN Routed("json", metadata,
                              JSONProcess(d, content, metadata, u, c, t1, t2))
                  ELSE NotRouted(d, u, c, "", PdfMessage)
             ELSE unrouted("HTTPException 400: Unsupported binary format")

\* ------------------------------------------------------------------ state
VARIABLES
    in_memory_store,  \* SharedMemory._in_memory_store
    clock,            \* the last reading of datetime.now()
    uuid,             \* the number of uuid4 identifiers drawn
    last,             \* the last call made on the store
    stored,           \* per key, the entry most recently given to store_entry
    patched,          \* the keys updated since they were stored
    pc,               \* where the call or request being served stands
    request,          \* the call or request being served
    classification,   \* the classifier's results for it
    response,         \* the answer to it
    ran               \* the agents run for it, with the metadata given to each

vars == <<in_memory_store, clock, uuid, last, stored, patched,
          pc, request, classification, response, ran>>

callVars == <<uuid, pc, request, classification, response, ran>>

EntryIds == 0..MaxClock

ThreadIds == {PyStr("t1"), PyStr("t2")}

ConversationIds == {PyNone, PyStr("c1")}

\* extracted_values of the entries given to the store: {"test": "value"}.
ExtractedValues == {PyDict([test |-> "value"], "native")}

\* The MemoryEntry objects a caller can give to store_entry.
Entries ==
    {e \in [source : {PyStr("test")},
            type : {PyStr("test")},
            timestamp : {PyDatetime(0), PyDatetime(1)},
            extracted_values : ExtractedValues,
            thread_id : ThreadIds,
            conversation_id : ConversationIds] :
        (e.conversation_id = PyNone) = (e.timestamp.n = 0)}

\* The dictionaries a caller gives to update_entry.
Updates == {[thread_id |-> PyStr("t2")],
            [note |-> PyStr("seen")]}

\* A reading of datetime.now() after the reading c: equal to it when the
\* two calls fall within the clock's resolution, and later otherwise (the
\* instants are numbered in order, so later is the next one).
ReadingsAfter(c) == {t \in {c, c + 1} : t <= MaxClock}

ClockReadings == ReadingsAfter(clock)

\* The last call: its name, the exception it raised and, for update_entry
\* and clear_thread, its arguments and the value it returned.
NoCall == [op |-> "", err |-> "", id |-> NoKey, thread_id |-> PyNone,
           updates |-> NoMeta, ret |-> PyNone]

NoDoc == [pytype |-> "", json |-> "", type |-> Absent, data |-> "",
          from |-> PyNone, subject |-> PyNone, body |-> "", pdf |-> "",
          words |-> <<>>]

NoRequest == [route |-> "", content |-> NoDoc, metadata |-> NoMeta]

NoClassification == [format |-> "", intent |-> "", confidence |-> 0]

NoResponse == [status |-> 0, detail |-> "", classification |-> NoResults,
               result |-> NoResults]

Init ==
    /\ in_memory_store = <<>>
    /\ clock = 0
    /\ uuid = 0
    /\ last = NoCall
    /\ stored = [id \in EntryIds |-> NoEntry]
    /\ patched = {}
    /\ pc = "idle"
    /\ request = NoRequest
    /\ classification = NoClassification
    /\ response = NoResponse
    /\ ran = <<>>

StoreEntry(e, t) ==
    /\ Len(in_memory_store) < MaxEntries
    /\ LET r == store_entry(in_memory_store, e, t)
       IN  /\ in_memory_store' = r.store
           /\ last' = [NoCall EXCEPT !.op = "store_entry"]
           /\ stored' = [stored EXCEPT ![r.id] = e]
           /\ patched' = patched \ {r.id}
    /\ clock' = t
    /\ UNCHANGED callVars

GetEntry(id) ==
    /\ LET r == get_entry(in_memory_store, id)
       IN  /\ in_memory_store' = r.store
           /\ last' = [NoCall EXCEPT !.op = "get_entry", !.err = r.err]
    /\ UNCHANGED <<clock, stored, patched>>
    /\ UNCHANGED callVars

GetThreadHistory(thread_id) ==
    /\ LET r == get_thread_history(in_memory_store, thread_id)
       IN  /\ in_memory_store' = r.store
           /\ last' = [NoCall EXCEPT !.op = "get_thread_history",
                                     !.err = r.err]
    /\ UNCHANGED <<clock, stored, patched>>
    /\ UNCHANGED callVars

UpdateEntry(id, updates) ==
    /\ Has(in_memory_store, id) =>
           (id \notin patched /\ Cardinality(patched) < MaxPatched)
    /\ LET r == update_entry(in_memory_store, id, updates)
       IN  /\ in_memory_store' = r.store
           /\ last' = [NoCall EXCEPT !.op = "update_entry", !.id = id,
                                     !.updates = updates,
                                     !.ret = PyBool(r.ret)]
           /\ patched' = IF r.ret THEN patched \cup {id} ELSE patched
    /\ UNCHANGED <<clock, stored>>
    /\ UNCHANGED callVars

DeleteEntry(id) ==
    /\ LET r == delete_entry(in_memory_store, id)
       IN  /\ in_memory_store' = r.store
           /\ last' = [NoCall EXCEPT !.op = "delete_entry"]
    /\ stored' = [stored EXCEPT ![id] = NoEntry]
    /\ patched' = patched \ {id}
    /\ UNCHANGED clock
    /\ UNCHANGED callVars

ClearThread(thread_id) ==
    /\ LET r == clear_thread(in_memory_store, thread_id)
       IN  /\ in_memory_store' = r.store
           /\ last' = [NoCall EXCEPT !.op = "clear_thread",
                                     !.thread_id = thread_id,
                                     !.ret = PyInt(r.ret)]
           /\ stored' = [id \in EntryIds |->
                           IF id \in Keys(r.store) THEN stored[id] ELSE NoEntry]
           /\ patched' = patched \cap Keys(r.store)
    /\ UNCHANGED clock
    /\ UNCHANGED callVars

Next ==
    \/ \E e \in Entries, t \in ClockReadings : StoreEntry(e, t)
    \/ \E id \in EntryIds : GetEntry(id)
    \/ \E thread_id \in ThreadIds : GetThreadHistory(thread_id)
    \/ \E id \in EntryIds, updates \in Updates : UpdateEntry(id, updates)
    \/ \E id \in EntryIds : DeleteEntry(id)
    \/ \E thread_id \in ThreadIds : ClearThread(thread_id)

Spec == Init /\ [][Next]_vars


\* ------------------------------------------------------ claims on the store
\* C1 (store round trip): for every entry e given to store_entry under key
\* id and neither updated nor deleted since, every get_entry(id), the first
\* and each later one, also after a get_thread_history, returns an entry
\* (not None, no exception) whose source, type, thread_id, conversation_id
\* and extracted_values equal those of e.
StoreRoundTrip ==
    \A id \in EntryIds :
        (stored[id] # NoEntry /\ id \notin patched) =>
            LET r == get_entry(in_memory_store, id)
            IN  /\ r.err = ""
                /\ r.entry # NoEntry
                /\ r.entry.source = stored[id].source
                /\ r.entry.type = stored[id].type
                /\ r.entry.thread_id = stored[id].thread_id
                /\ r.entry.conversation_id = stored[id].conversation_id
                /\ r.entry.extracted_values = stored[id].extracted_values

\* C6 (reads are read-only): a get_entry or get_thread_history call leaves
\* the stored record of every entry, all field values and their
\* representation, exactly as it was before the call.
ReadsLeaveRecordsUnchanged ==
    [][last'.op \in {"get_entry", "get_thread_history"} =>
          in_memory_store' = in_memory_store]_vars

\* C7 (storing never drops or merges): every store_entry call adds a key
\* that was not in the store, makes the store one entry larger and leaves
\* every entry stored before it present and unchanged, whatever the clock
\* reads.
StoreAddsOneEntry ==
    [][last'.op = "store_entry" =>
          /\ Len(in_memory_store') = Len(in_memory_store) + 1
          /\ Keys(in_memory_store) \subseteq Keys(in_memory_store')
          /\ Cardinality(Keys(in_memory_store') \ Keys(in_memory_store)) = 1
          /\ SubSeq(in_memory_store', 1, Len(in_memory_store)) = in_memory_store
      ]_vars


\* The keys of the records whose thread_id is t.
ThreadKeys(t) ==
    {k \in Keys(in_memory_store) : Lookup(in_memory_store, k)["thread_id"] = t}

\* C15 (thread history): in every store state reached by store_entry,
\* get_entry, get_thread_history, delete_entry and clear_thread calls, and
\* for every thread id t, get_thread_history(t) returns without error the
\* stored entries whose thread_id is t, each once, by non-decreasing
\* timestamp; the empty list when there is none.
ThreadHistoryComplete ==
    patched = {} =>
        \A t \in ThreadIds :
            LET r == get_thread_history(in_memory_store, t)
            IN  /\ r.err = ""
                /\ Len(r.entries) = Cardinality(ThreadKeys(t))
                /\ \A k \in ThreadKeys(t) :
                       \E i \in DOMAIN r.entries : r.entries[i] = stored[k]
                /\ \A i \in DOMAIN r.entries :
                       /\ r.entries[i].thread_id = t
                       /\ \A j \in DOMAIN r.entries :
                              i <= j => r.entries[i].timestamp.n
                                            <= r.entries[j].timestamp.n

\* C16 (update_entry): update_entry(id, updates) returns False and leaves
\* the store unchanged when id is not stored; when it is, the call returns
\* True, the record of id holds the values of updates under the keys of
\* updates, whatever they are, and its other keys as before, and every
\* other record is unchanged.
UpdateEntryFrame ==
    [][last'.op = "update_entry" =>
          IF ~Has(in_memory_store, last'.id)
          THEN /\ last'.ret = PyBool(FALSE)
               /\ in_memory_store' = in_memory_store
          ELSE LET old == Lookup(in_memory_store, last'.id)
                   new == Lookup(in_memory_store', last'.id)
               IN  /\ last'.ret = PyBool(TRUE)
                   /\ Len(in_memory_store') = Len(in_memory_store)
                   /\ \A i \in DOMAIN in_memory_store :
                          /\ in_memory_store'[i].key = in_memory_store[i].key
                          /\ in_memory_store[i].key # last'.id =>
                                 in_memory_store'[i] = in_memory_store[i]
                   /\ DOMAIN new = DOMAIN old \cup DOMAIN last'.updates
                   /\ \A k \in DOMAIN last'.updates :
                          new[k] = last'.updates[k]
                   /\ \A k \in DOMAIN old \ DOMAIN last'.updates :
                          new[k] = old[k]
      ]_vars

\* An update has moved one of two stored entries from thread t1 to t2.
UpdateEntryFrameWitness ==
    /\ last.op = "update_entry"
    /\ last.ret = PyBool(TRUE)
    /\ last.updates = [thread_id |-> PyStr("t2")]
    /\ stored[last.id].thread_id = PyStr("t1")
    /\ Lookup(in_memory_store, last.id)["thread_id"] = PyStr("t2")
    /\ Len(in_memory_store) = 2

\* C17 (clear_thread): clear_thread(t) removes the entries whose stored
\* thread_id is t and no other, and returns their number; the entries of
\* every other thread stay, unchanged and in their order; afterwards
\* get_thread_history(t) returns the empty list and get_entry returns
\* None for each removed id.
ClearThreadExact ==
    [][last'.op = "clear_thread" =>
          LET t == last'.thread_id
              removed == ThreadKeys(t)
          IN  /\ last'.ret = PyInt(Cardinality(removed))
              /\ Keys(in_memory_store') = Keys(in_memory_store) \ removed
              /\ in_memory_store'
                     = SelectSeq(in_memory_store,
                                 LAMBDA x : x.val["thread_id"] # t)
              /\ get_thread_history(in_memory_store', t).err = ""
              /\ get_thread_history(in_memory_store', t).entries = <<>>
              /\ \A id \in removed :
                     /\ get_entry(in_memory_store', id).err = ""
                     /\ get_entry(in_memory_store', id).entry = NoEntry
      ]_vars

\* A thread of one entry has been cleared and the entry of the other
\* thread is still stored.
ClearThreadExactWitness ==
    /\ last.op = "clear_thread"
    /\ last.ret = PyInt(1)
    /\ Len(in_memory_store) = 1
    /\ in_memory_store[1].val["thread_id"] # last.thread_id

\* ------------------------------------------------ calls of the classifier
\* Every keyword, an upper-case spelling and a word that is no keyword.
Tokens ==
    UNION {{intent_keywords[i].keywords[j] : j \in 1..4} : i \in 1..4}
        \cup {"INVOICE", "hello"}

\* Two keywords of each intent and the upper-case spelling: the words of
\* the longer texts.
CoreTokens == {"invoice", "bill", "rfq", "pricing", "complaint", "issue",
               "regulation", "policy", "INVOICE"}

\* The texts: up to MaxWords core words, every single word, and two texts
\* holding all four keywords of an intent.
Texts ==
    UNION {[1..n -> CoreTokens] : n \in 0..MaxWords}
        \cup {<<w>> : w \in Tokens}
        \cup {<<"invoice", "bill", "payment", "amount due">>,
              <<"pricing", "rfq", "quote request", "request for quote", "bill">>}

SampleTexts == {<<>>, <<"hello">>, <<"INVOICE">>, <<"pricing", "issue">>,
                <<"policy", "complaint", "concern">>}

EmailDoc(from, subject, body, words) ==
    [NoDoc EXCEPT !.pytype = "str", !.json = "invalid", !.from = from,
                  !.subject = subject, !.body = body, !.words = words]

JsonDoc(json, type, data, words) ==
    [NoDoc EXCEPT !.pytype = "str", !.json = json, !.type = type,
                  !.data = data, !.words = words]

BytesDoc(pdf, words) ==
    [NoDoc EXCEPT !.pytype = "bytes", !.pdf = pdf, !.words = words]

IntDoc == [NoDoc EXCEPT !.pytype = "int"]

Headers == {PyNone, PyStr(""), PyStr("test@example.com")}

TypeValues == {Absent, PyStr("invoice"), PyStr("Invoice"), PyStr("RFQ"),
               PyStr("memo"), PyInt(5)}

\* The documents given to the classifier.
ClassifierDocs ==
    {EmailDoc(PyStr("test@example.com"), PyStr("Test Email"), "text", w) :
         w \in Texts}
    \cup {EmailDoc(f, sub, "text", w) :
              f \in Headers, sub \in Headers, w \in SampleTexts}
    \cup {JsonDoc("object", ty, "absent", w) : ty \in TypeValues, w \in SampleTexts}
    \cup {JsonDoc("array", Absent, "absent", w) : w \in SampleTexts}
    \cup {JsonDoc("number", Absent, "absent", <<>>)}
    \cup {BytesDoc("ok", w) : w \in SampleTexts}
    \cup {BytesDoc("extract_error", <<>>), BytesDoc("unreadable", <<>>), IntDoc}

ClassifierMetadata == {[source |-> PyStr("test")],
                       [source |-> PyStr("test"), thread_id |-> PyStr("t1")],
                       [source |-> PyInt(5)]}

InitClassifier ==
    /\ in_memory_store = <<>>
    /\ clock = 0
    /\ uuid = 0
    /\ last = NoCall
    /\ stored = [id \in EntryIds |-> NoEntry]
    /\ patched = {}
    /\ pc = "call"
    /\ request \in [route : {"classifier"}, content : ClassifierDocs,
                    metadata : ClassifierMetadata]
    /\ classification = NoClassification
    /\ response = NoResponse
    /\ ran = <<>>

\* ClassifierAgent.process, its first statement: the format is detected.
ClassifierDetectFormat ==
    /\ pc = "call"
    /\ LET format_type == detect_format(request.content)
       IN  IF format_type.err # ""
           THEN /\ pc' = "raised"
                /\ response' = [NoResponse EXCEPT !.detail = format_type.err]
                /\ UNCHANGED classification
           ELSE /\ pc' = "format"
                /\ classification' =
                       [NoClassification EXCEPT !.format = format_type.val]
                /\ UNCHANGED response
    /\ UNCHANGED <<in_memory_store, clock, uuid, last, stored, patched,
                   request, ran>>

\* ClassifierAgent.process, the rest: the intent is detected, the
\* confidence computed and the results logged and returned.
ClassifierDetectIntent(t1, t2) ==
    /\ pc = "format"
    /\ LET r == ClassifierProcess(in_memory_store, request.content,
                                  request.metadata, uuid, clock, t1, t2)
       IN  /\ in_memory_store' = r.store
           /\ clock' = r.reads
           /\ uuid' = r.drawn
           /\ IF r.err # ""
              THEN /\ pc' = "raised"
                   /\ response' = [NoResponse EXCEPT !.detail = r.err]
                   /\ UNCHANGED classification
              ELSE /\ pc' = "returned"
                   /\ classification' = r.results
                   /\ UNCHANGED response
           /\ ran' = <<[agent |-> "classifier", metadata |-> request.metadata,
                        key |-> r.key]>>
    /\ UNCHANGED <<last, stored, patched, request>>

NextClassifier ==
    \/ ClassifierDetectFormat
    \/ \E t1 \in ClockReadings : \E t2 \in ReadingsAfter(t1) :
           ClassifierDetectIntent(t1, t2)

SpecClassifier == InitClassifier /\ [][NextClassifier]_vars


\* ------------------------------------------------- claims on the classifier
ParsesAsJson(content) == content.pytype = "str" /\ content.json # "invalid"

HasBothHeaders(content) ==
    /\ content.pytype = "str"
    /\ content.from \notin {PyNone, PyStr("")}
    /\ content.subject \notin {PyNone, PyStr("")}

ParsesAsPdf(content) ==
    content.pytype = "bytes" /\ content.pdf \in {"ok", "extract_error"}

\* C3 (format priority): a str that parses as JSON is "json"; otherwise a
\* str with a non-empty From and a non-empty Subject header is "email";
\* bytes that parse as a PDF are "pdf"; every other input raises
\* ValueError("Unsupported format"); a detected format is one of the three.
FormatPriority ==
    LET content == request.content
        detected == pc \in {"format", "returned"}
        unsupported == pc = "raised"
                       /\ response.detail = "ValueError: Unsupported format"
    IN  pc # "call" =>
          /\ ParsesAsJson(content) =>
                 (~unsupported /\ (detected => classification.format = "json"))
          /\ (~ParsesAsJson(content) /\ HasBothHeaders(content)) =>
                 (~unsupported /\ (detected => classification.format = "email"))
          /\ ParsesAsPdf(content) =>
                 (~unsupported /\ (detected => classification.format = "pdf"))
          /\ ~(ParsesAsJson(content) \/ HasBothHeaders(content)
                 \/ ParsesAsPdf(content)) => unsupported
          /\ detected => classification.format \in {"json", "email", "pdf"}

\* A str with a From header and an empty Subject header was refused.
FormatPriorityWitness ==
    /\ pc = "raised"
    /\ response.detail = "ValueError: Unsupported format"
    /\ request.content.pytype = "str"
    /\ request.content.from = PyStr("test@example.com")
    /\ request.content.subject = PyStr("")

\* The number of the keywords of the i-th intent that occur in the text.
Occurring(i, text) ==
    Cardinality({k \in {intent_keywords[i].keywords[j] : j \in 1..4} :
                    \E n \in DOMAIN text : text[n] = k})

\* The text the classifier counts keywords in, when it counts.
CountedText ==
    [i \in DOMAIN request.content.words |->
        IF request.content.words[i] = "INVOICE" THEN "invoice"
        ELSE request.content.words[i]]

KeywordsCounted ==
    /\ pc = "returned"
    /\ \/ classification.format \in {"email", "pdf"}
       \/ classification.format = "json" /\ request.content.type = Absent

\* C4 (keyword-count intent): the intent is "unknown" when no keyword of
\* any intent occurs in the lowercased text; otherwise it is the intent
\* with the most keywords occurring, each keyword counted once, and among
\* equals the first in the order invoice, rfq, complaint, regulation.
KeywordCountIntent ==
    KeywordsCounted =>
        IF \A i \in 1..4 : Occurring(i, CountedText) = 0
        THEN classification.intent = "unknown"
        ELSE \E i \in 1..4 :
                /\ classification.intent =
                       <<"invoice", "rfq", "complaint", "regulation">>[i]
                /\ \A j \in 1..4 : Occurring(j, CountedText) <= Occurring(i, CountedText)
                /\ \A j \in 1..(i - 1) :
                       Occurring(j, CountedText) < Occurring(i, CountedText)

\* A tie between rfq and a later intent went to rfq.
KeywordCountIntentWitness ==
    /\ KeywordsCounted
    /\ classification.intent = "rfq"
    /\ \E j \in 3..4 : Occurring(j, CountedText) = Occurring(2, CountedText)

\* C9 (confidence): the confidence returned is 0.85 when the intent is one
\* of invoice, rfq, complaint, regulation and 0.7 otherwise; the format
\* base 0.5 never enters a returned result.
ConfidenceTwoValues ==
    pc = "returned" =>
        /\ classification.format \in {"pdf", "json", "email"}
        /\ classification.confidence =
               IF classification.intent \in
                      {"invoice", "rfq", "complaint", "regulation"}
               THEN 85 ELSE 70

\* A JSON document of type "memo" was given confidence 0.7.
ConfidenceTwoValuesWitness ==
    /\ pc = "returned"
    /\ classification.intent = "memo"
    /\ classification.confidence = 70

\* C10 (the type member decides): for a JSON object with a string "type"
\* the classifier returns format "json" and the lowercased type as intent,
\* whatever keywords occur; it fails only if the results cannot be logged.
TypeMemberDecides ==
    LET content == request.content
    IN  (ParsesAsJson(content) /\ content.json = "object" /\ IsStr(content.type)) =>
          /\ pc = "returned" =>
                /\ classification.format = "json"
                /\ classification.intent =
                       (CASE content.type.s = "Invoice" -> "invoice"
                          [] content.type.s = "RFQ" -> "rfq"
                          [] OTHER -> content.type.s)
          /\ pc = "raised" => response.detail = "ValidationError"

\* A document of type "memo" holding rfq and complaint keywords was
\* classified as "memo".
TypeMemberDecidesWitness ==
    /\ pc = "returned"
    /\ request.content.type = PyStr("memo")
    /\ request.content.words = <<"pricing", "issue">>
    /\ classification.intent = "memo"


\* ------------------------------------------------------ the HTTP handlers
\* Documents posted as text or uploaded as a file that decodes as UTF-8.
HttpTexts == {<<>>, <<"pricing", "issue">>, <<"INVOICE", "urgent">>}

HttpDocs ==
    {JsonDoc("object", PyStr("Invoice"), da, <<"pricing", "issue">>) :
         da \in {"complete", "noitems", "nonmapping", "badamount"}}
    \cup {JsonDoc("object", PyStr("memo"), "complete", <<"pricing", "issue">>),
          JsonDoc("object", Absent, "noitems", <<"pricing", "issue">>),
          JsonDoc("object", PyInt(5), "absent", <<>>),
          JsonDoc("array", Absent, "absent", <<"bill">>),
          JsonDoc("number", Absent, "absent", <<>>)}
    \cup {EmailDoc(PyStr("test@example.com"), PyStr("Test Email"), b, w) :
              b \in {"text", "parts"}, w \in HttpTexts}
    \cup {EmailDoc(PyNone, PyStr("Test Email"), "text", <<"bill">>)}

\* Uploads that do not decode as UTF-8.
BinaryDocs == {BytesDoc("ok", <<"invoice">>), BytesDoc("ok", <<"policy">>),
               BytesDoc("ok", <<>>), BytesDoc("extract_error", <<>>),
               BytesDoc("unreadable", <<>>)}

\* request.metadata or {}
HttpMetadata == {NoMeta,
                 [thread_id |-> PyStr("t1")],
                 [thread_id |-> PyStr("t1"), intent |-> PyStr("complaint")],
                 [thread_id |-> PyInt(5)]}

\* A request is taken when none is being served and the two entries it
\* may log stay within the bounds.
Admitted ==
    /\ pc \in {"idle", "responded"}
    /\ Len(in_memory_store) + 2 <= MaxEntries
    /\ uuid + 2 <= MaxLogs

\* The handler up to the classifier's return or exception.
Classify(route, content, metadata, t1, t2) ==
    /\ Admitted
    /\ request' = [route |-> route, content |-> content, metadata |-> metadata]
    /\ LET r == ClassifierProcess(in_memory_store, content, metadata, uuid,
                                  clock, t1, t2)
       IN  /\ in_memory_store' = r.store
           /\ clock' = r.reads
           /\ uuid' = r.drawn
           /\ ran' = <<[agent |-> "classifier", metadata |-> metadata,
                        key |-> r.key]>>
           /\ IF r.err # ""
              THEN /\ pc' = "responded"
                   /\ classification' = NoClassification
                   /\ response' = error_response(r.err)
              ELSE /\ pc' = "classified"
                   /\ classification' = r.results
                   /\ response' = NoResponse
    /\ UNCHANGED <<last, stored, patched>>

\* POST /process: process_input up to the classification.
PostProcess(content, metadata, t1, t2) ==
    Classify("/process", content, metadata, t1, t2)

\* POST /process/file: process_file up to the classification; the upload
\* is classified as text when it decodes and as bytes when it does not.
PostProcessFile(content, t1, t2) ==
    Classify("/process/file", content, NoMeta, t1, t2)

\* The rest of either handler: the extractor of the format runs and the
\* request is answered.
Respond(r) ==
    /\ in_memory_store' = r.store
    /\ clock' = r.reads
    /\ uuid' = r.drawn
    /\ ran' = IF r.agent = "" THEN ran
              ELSE Append(ran, [agent |-> r.agent, metadata |-> r.metadata,
                                key |-> r.key])
    /\ response' = IF r.err # "" THEN error_response(r.err)
                   ELSE ok_response(classification, r.results)
    /\ pc' = "responded"
    /\ UNCHANGED <<last, stored, patched, request, classification>>

RouteProcess(t1, t2) ==
    /\ pc = "classified"
    /\ request.route = "/process"
    /\ Respond(process_input_route(in_memory_store, request.content,
                                   request.metadata, classification, uuid,
                                   clock, t1, t2))

RouteProcessFile(t1, t2) ==
    /\ pc = "classified"
    /\ request.route = "/process/file"
    /\ Respond(process_file_route(in_memory_store, request.content,
                                  classification, uuid, clock, t1, t2))

NextHttp ==
    \/ \E content \in HttpDocs, metadata \in HttpMetadata :
           \E t1 \in ClockReadings : \E t2 \in ReadingsAfter(t1) :
               PostProcess(content, metadata, t1, t2)
    \/ \E content \in HttpDocs \cup BinaryDocs :
           \E t1 \in ClockReadings : \E t2 \in ReadingsAfter(t1) :
               PostProcessFile(content, t1, t2)
    \/ \E t1 \in ClockReadings : \E t2 \in ReadingsAfter(t1) :
           RouteProcess(t1, t2)
    \/ \E t1 \in ClockReadings : \E t2 \in ReadingsAfter(t1) :
           RouteProcessFile(t1, t2)

SpecHttp == Init /\ [][NextHttp]_vars


\* ------------------------------------------- direct calls of the extractors
\* The texts of the emails given to the email agent.
AgentTexts == {<<>>, <<"pricing", "issue">>, <<"bill", "pricing", "rfq">>,
               <<"RFQ", "quote">>, <<"policy", "urgent">>}

\* A dict given as content, as test_json_agent_invoice gives one.
DictDoc(type, data) ==
    [NoDoc EXCEPT !.pytype = "dict", !.json = "object", !.type = type,
                  !.data = data]

DataValues == {"absent", "empty", "complete", "noitems", "badamount",
               "nonmapping"}

\* The documents given to JSONAgent.process.
JSONAgentDocs ==
    {DictDoc(ty, da) : ty \in {PyStr("invoice"), PyStr("memo")},
                       da \in DataValues}
    \cup {JsonDoc("object", ty, da, <<>>) :
              ty \in {Absent, PyStr("invoice"), PyStr("rfq"), PyStr("Invoice"),
                      PyInt(5)},
              da \in DataValues}
    \cup {JsonDoc("array", Absent, "absent", <<>>),
          JsonDoc("number", Absent, "absent", <<>>),
          EmailDoc(PyNone, PyNone, "text", <<>>),
          BytesDoc("ok", <<"invoice">>),
          IntDoc}

\* The documents given to EmailAgent.process.
EmailAgentDocs ==
    {EmailDoc(f, sub, b, w) :
         f \in {PyNone, PyStr("test@example.com")},
         sub \in {PyNone, PyStr("Test Email")},
         b \in {"text", "parts"},
         w \in AgentTexts}
    \cup {BytesDoc("ok", <<"invoice">>), IntDoc}

\* The metadata given to either agent.
AgentMetadata == {NoMeta,
                  [intent |-> PyStr("rfq")],
                  [intent |-> PyStr("complaint")],
                  [intent |-> PyStr("invoice"), thread_id |-> PyStr("t1")],
                  [intent |-> PyStr("")],
                  [intent |-> PyStr("memo")],
                  [intent |-> PyStr("invoice"), thread_id |-> PyInt(5)]}

\* One call of an extractor on a fresh store: the agent, the content and
\* the metadata are the caller's.
InitAgents ==
    /\ in_memory_store = <<>>
    /\ clock = 0
    /\ uuid = 0
    /\ last = NoCall
    /\ stored = [id \in EntryIds |-> NoEntry]
    /\ patched = {}
    /\ pc = "call"
    /\ request \in [route : {"json"}, content : JSONAgentDocs,
                     metadata : AgentMetadata]
                \cup [route : {"email"}, content : EmailAgentDocs,
                      metadata : AgentMetadata]
    /\ classification = NoClassification
    /\ response = NoResponse
    /\ ran = <<>>

\* await agent.process(content, metadata), with the outcome r.
AgentCall(agent, r) ==
    /\ pc = "call"
    /\ request.route = agent
    /\ in_memory_store' = r.store
    /\ clock' = r.reads
    /\ uuid' = r.drawn
    /\ ran' = <<[agent |-> agent, metadata |-> request.metadata,
                 key |-> r.key]>>
    /\ pc' = IF r.err # "" THEN "raised" ELSE "returned"
    /\ response' = [NoResponse EXCEPT !.detail = r.err, !.result = r.results]
    /\ UNCHANGED <<last, stored, patched, classification, request>>

CallJSONAgent(t1, t2) ==
    AgentCall("json", JSONProcess(in_memory_store, request.content,
                                  request.metadata, uuid, clock, t1, t2))

CallEmailAgent(t1, t2) ==
    AgentCall("email", EmailProcess(in_memory_store, request.content,
                                    request.metadata, uuid, clock, t1, t2))

NextAgents ==
    \/ \E t1 \in ClockReadings : \E t2 \in ReadingsAfter(t1) :
           CallJSONAgent(t1, t2)
    \/ \E t1 \in ClockReadings : \E t2 \in ReadingsAfter(t1) :
           CallEmailAgent(t1, t2)

SpecAgents == InitAgents /\ [][NextAgents]_vars


\* ----------------------------------------------- claims on the extractors
\* A keyword of the i-th intent occurs in the lowercased subject and body
\* of the email of the call.
EmailMentions(i) ==
    \E j \in DOMAIN intent_keywords[i].keywords :
        \E k \in DOMAIN request.content.words :
            lower(request.content.words[k]) = intent_keywords[i].keywords[j]

\* C11 (the email agent's intent): a call of EmailAgent.process that
\* returns reports, in analysis.intent and in crm_data.classification.intent
\* alike, the first of invoice, rfq, complaint, regulation one of whose
\* keywords occurs in the lowercased subject and body, and "general" when
\* none occurs, whatever metadata["intent"] is; an email with an rfq
\* keyword and no invoice keyword is reported as "rfq".
EmailIntentFirstMatch ==
    (pc = "returned" /\ request.route = "email") =>
        LET reported == response.result.analysis.intent
        IN  /\ response.result.crm_data.classification.intent = reported
            /\ reported = IF EmailMentions(1) THEN "invoice"
                          ELSE IF EmailMentions(2) THEN "rfq"
                          ELSE IF EmailMentions(3) THEN "complaint"
                          ELSE IF EmailMentions(4) THEN "regulation"
                          ELSE "general"
            /\ (EmailMentions(2) /\ ~EmailMentions(1)) => reported = "rfq"

\* An email that mentions an invoice keyword once and rfq keywords twice,
\* given with the intent "complaint", was reported as "invoice".
EmailIntentFirstMatchWitness ==
    /\ pc = "returned"
    /\ request.route = "email"
    /\ request.metadata = [intent |-> PyStr("complaint")]
    /\ request.content.words = <<"bill", "pricing", "rfq">>
    /\ response.result.analysis.intent = "invoice"

\* The intent the JSON agent is to use for the call: metadata["intent"]
\* when it is non-empty, else the document's "type", else "unknown".
ClaimedIntent ==
    IF "intent" \in DOMAIN request.metadata
       /\ request.metadata["intent"] \notin {PyStr(""), PyNone}
    THEN request.metadata["intent"]
    ELSE IF request.content.type # Absent THEN request.content.type
    ELSE PyStr("unknown")

\* The call gives a JSON object, as text or as a dict.
GivenObject ==
    /\ request.route = "json"
    /\ request.content.pytype \in {"str", "dict"}
    /\ request.content.json = "object"

\* The metadata of the call can be logged: its thread_id, if any, is a str.
LoggableMetadata ==
    "thread_id" \in DOMAIN request.metadata =>
        IsStr(request.metadata["thread_id"])

\* C12 (the JSON agent's intent and validity): JSONAgent.process uses the
\* intent of metadata["intent"] when that is non-empty and the document's
\* "type" (default "unknown") otherwise; for an intent among invoice, rfq,
\* complaint, regulation and a document with a string "type" and a mapping
\* "data" the call returns, with valid = True, no validation errors,
\* formatted data and a list of anomalies, whatever fields "data" holds.
JSONValidWhateverData ==
    (pc \in {"returned", "raised"} /\ GivenObject) =>
        /\ pc = "returned" =>
               response.result.formatted_data.type = ClaimedIntent
        /\ ( /\ ClaimedIntent \in {PyStr(i) : i \in SCHEMAS}
             /\ IsStr(request.content.type)
             /\ request.content.data \in DataValues \ {"absent", "nonmapping"}
             /\ LoggableMetadata )
           => /\ pc = "returned"
              /\ response.result.valid
              /\ response.result.validation_errors = <<>>

\* ------------------------------------------------- claims on the handlers
\* The record stored under the key returned to the k-th agent run.
LoggedRecord(k) == Lookup(in_memory_store, ran[k].key)

\* The k-th agent run logged its entry and the entry is in the store.
Logged(k) ==
    /\ ran[k].key # NoKey
    /\ Has(in_memory_store, ran[k].key)
    /\ LoggedRecord(k)["extracted_values"].kind = "jsonstr"
    /\ LoggedRecord(k)["extracted_values"].p.agent_id = ran[k].agent

\* C2 (routing order in POST /process): the classifier runs first and its
\* results are logged before any extractor runs; then exactly one extractor
\* runs, the JSON agent for format "json" and the email agent for format
\* "email", with metadata["intent"] equal to the classifier's intent
\* whatever intent the caller supplied; a successful response holds the
\* classification and that extractor's result.
RoutingOrder ==
    request.route = "/process" =>
        /\ Len(ran) \in 1..2
        /\ ran[1].agent = "classifier"
        /\ ran[1].metadata = request.metadata
        /\ pc = "classified" =>
               /\ Len(ran) = 1
               /\ Logged(1)
               /\ LoggedRecord(1)["extracted_values"].p.processing_results
                      = classification
        /\ Len(ran) = 2 =>
               /\ pc = "responded"
               /\ classification.format \in {"json", "email"}
               /\ ran[2].agent = classification.format
               /\ "intent" \in DOMAIN ran[2].metadata
               /\ ran[2].metadata["intent"] = PyStr(classification.intent)
               /\ \A k \in DOMAIN request.metadata \ {"intent"} :
                      ran[2].metadata[k] = request.metadata[k]
        /\ response.status = 200 =>
               /\ Len(ran) = 2
               /\ response.classification = classification
               /\ response.result # NoResults

\* A request whose caller supplied the intent "complaint" was classified
\* as an email of another intent, went to the email agent and succeeded.
RoutingOrderWitness ==
    /\ request.route = "/process"
    /\ pc = "responded"
    /\ response.status = 200
    /\ "intent" \in DOMAIN request.metadata
    /\ request.metadata["intent"] # PyStr(classification.intent)
    /\ Len(ran) = 2
    /\ ran[2].agent = "email"

\* What the classifier can return for a document no handler branch takes.
UnroutedResults == [format |-> "pdf", intent |-> "invoice", confidence |-> 85]

\* C5 (failures are answered 500): every request that is not answered
\* with the classification and a result is answered with status 500 and a
\* message, whether the classifier or the extractor raised; the handlers'
\* own status-400 exceptions are answered 500 as well; no request is
\* answered with status 400.
FailuresAnswered500 ==
    /\ pc = "responded" =>
           /\ response.status \in {200, 500}
           /\ response.status = 500 <=> response.result = NoResults
           /\ response.status = 500 => response.detail # ""
           /\ detect_format(request.content).err # "" => response.status = 500
           /\ (Len(ran) = 2 /\ ran[2].key = NoKey) => response.status = 500
    /\ response.status # 400
    /\ LET r == process_input_route(in_memory_store, request.content,
                                    request.metadata, UnroutedResults, uuid,
                                    clock, clock, clock)
           f == process_file_route(in_memory_store,
                                   [request.content EXCEPT !.pytype = "str"],
                                   UnroutedResults, uuid, clock, clock, clock)
           b == process_file_route(in_memory_store,
                                   [request.content EXCEPT !.pytype = "bytes"],
                                   [UnroutedResults EXCEPT !.format = "json"],
                                   uuid, clock, clock, clock)
       IN  \A x \in {r, f, b} :
               /\ x.err # ""
               /\ error_response(x.err).status = 500
               /\ error_response(x.err).detail = x.err

\* An upload was classified and the JSON agent raised: the answer is 500
\* with the agent's message.
FailuresAnswered500Witness ==
    /\ pc = "responded"
    /\ request.route = "/process/file"
    /\ response.status = 500
    /\ Len(ran) = 2
    /\ ran[2].agent = "json"
    /\ response.detail = "ValueError: Error processing JSON"

\* C13 (PDF uploads): an upload that is not UTF-8 and is classified as a
\* PDF is answered 200 with the classification; with the JSON agent's
\* result when the intent is "invoice", and with the fixed message for
\* every other intent.
PdfInvoiceSupported ==
    ( /\ pc = "responded"
      /\ request.route = "/process/file"
      /\ request.content.pytype = "bytes"
      /\ classification.format = "pdf" ) =>
        /\ response.status = 200
        /\ response.classification = classification
        /\ classification.intent = "invoice" =>
               /\ Len(ran) = 2
               /\ ran[2].agent = "json"
               /\ response.result \notin {NoResults, PdfMessage}
        /\ classification.intent # "invoice" =>
               /\ Len(ran) = 1
               /\ response.result = PdfMessage

\* C14 (logging is all or nothing): an agent's process call that returns
\* has stored exactly one entry, under the key it was given, holding the
\* results it returns, and has left every other entry as it was; a process
\* call that raises leaves the store unchanged; so a /process request whose
\* extractor raised has the classifier's entry in the store and none of
\* the extractor.
LoggingAllOrNothing ==
    /\ [][LET called == pc \in {"idle", "responded"} \/ Len(ran') = 2
              call == ran'[Len(ran')]
              returned == IF Len(ran') = 1 THEN pc' = "classified"
                          ELSE response'.status = 200
              results == IF Len(ran') = 1 THEN classification'
                         ELSE response'.result
          IN  called =>
                IF returned
                THEN /\ call.key # NoKey
                     /\ Keys(in_memory_store')
                            = Keys(in_memory_store) \cup {call.key}
                     /\ \A k \in Keys(in_memory_store) \ {call.key} :
                            Lookup(in_memory_store', k)
                                = Lookup(in_memory_store, k)
                     /\ Lookup(in_memory_store', call.key)["extracted_values"]
                            = JsonStr([input_metadata |-> call.metadata,
                                       processing_results |-> results,
                                       agent_id |-> call.agent])
                ELSE /\ call.key = NoKey
                     /\ in_memory_store' = in_memory_store
         ]_vars
    /\ []((pc = "responded" /\ request.route = "/process" /\ Len(ran) = 2
             /\ response.status = 500)
            => (Logged(1) /\ ran[2].key = NoKey))

\* A /process request whose JSON agent raised: the store holds the
\* classifier's entry alone.
LoggingAllOrNothingWitness ==
    /\ pc = "responded"
    /\ request.route = "/process"
    /\ Len(ran) = 2
    /\ ran[2].agent = "json"
    /\ response.status = 500
    /\ Len(in_memory_store) = 1
    /\ Logged(1)

\* C8 (thread grouping): after a successful request that ran an extractor,
\* the classifier's entry and the extractor's entry are both in the store;
\* they carry the thread_id of the request's metadata when it has one, and
\* two different thread ids when it has none.
ThreadGrouping ==
    (pc = "responded" /\ response.status = 200 /\ Len(ran) = 2) =>
        /\ Logged(1)
        /\ Logged(2)
        /\ "thread_id" \in DOMAIN request.metadata =>
               /\ LoggedRecord(1)["thread_id"] = request.metadata["thread_id"]
               /\ LoggedRecord(2)["thread_id"] = request.metadata["thread_id"]
        /\ "thread_id" \notin DOMAIN request.metadata =>
               LoggedRecord(1)["thread_id"] # LoggedRecord(2)["thread_id"]

=============================================================================
